---- MODULE Spec2Model ----
(***************************************************************************)
(* The multi-distribution analysis engine of IsItAPowerLaw:                *)
(* AnalysisEngine (analysisEngine.js) coordinating DistributionAnalyzer    *)
(* instances, and DistributionUtils (distributionAnalyzer.js) ranking the  *)
(* standardized results.                                                   *)
(*                                                                         *)
(* Scores (R squared, confidence) are fractions in the code; here they are *)
(* integers in hundredths, so 0.9 is 90 and the 0.05 band is 5.  The score *)
(* values the model draws are spaced so that no two differ by exactly 5:   *)
(* the floating-point rounding of a difference at the edge of the band is  *)
(* not modelled and never decides a comparison.                            *)
(***************************************************************************)
EXTENDS Integers, Sequences, FiniteSets, TLC

\* ------------------------------------------------------------------ bounds
MaxResults == 3        \* longest list handed to rankResults / getBestFit
MaxNames == 2          \* longest explicit analyzerNames list of analyzeMultiple
MaxPoints == 5         \* longest array of observations
MaxFrequency == 3      \* largest frequency of an observation
MantissaBits == 5      \* significand bits of the floating-point numbers (53 in a double)

MaxNumber == 2         \* largest magnitude of a finite number handed to a numeric function
MaxXValues == 3        \* longest array of numbers handed to a numeric function

MaxPlotPoints == 40    \* most points of a normal probability plot

\* --------------------------------------------------------------- constants
GoodFitThreshold == 90 \* "> 0.9" in isGoodFit and in the family verdicts
ConfidenceBand == 5    \* "Math.abs(confidenceDiff) > 0.05" in rankResults

None == [isNone |-> TRUE]   \* JavaScript null: no result

Abs(x) == IF x < 0 THEN 0 - x ELSE x
Min2(a, b) == IF a < b THEN a ELSE b
Max2(a, b) == IF a > b THEN a ELSE b

\* A JavaScript number used as a condition: 0 (and a missing field, drawn as
\* 0 here) is falsy, every other number is truthy.
Truthy(x) == x # 0

\* ------------------------------------------------- floating-point numbers
\* probability, cdf and ccdf are JavaScript numbers: binary floating point,
\* every operation rounded to the nearest representable number, ties to the
\* even significand.  The model keeps that arithmetic with MantissaBits bits
\* of significand.  A number is held as an integer count of units of
\* 2^-ScaleBits; ScaleBits leaves room below the smallest quotient the
\* transform computes, so nothing underflows (as nothing does in a double).
ScaleBits == MantissaBits + 6
One == 2^ScaleBits

\* The integer nearest to n / d (n >= 0, d > 0), a tie going to the even one.
RoundHalfEven(n, d) ==
    LET q == n \div d
        r == n % d
    IN IF 2 * r < d THEN q
       ELSE IF 2 * r > d THEN q + 1
       ELSE IF q % 2 = 0 THEN q ELSE q + 1

\* The floating-point number nearest to n / d units.
FloatRound(n, d) ==
    LET a == Abs(n)
        sign == IF n < 0 THEN 0 - 1 ELSE 1
    IN IF a < d THEN sign * RoundHalfEven(a, d)
       ELSE LET k == CHOOSE k \in 0..(2 * ScaleBits + 6) :
                        2^k * d <= a /\ a < 2^(k + 1) * d
                ulp == IF k >= MantissaBits - 1 THEN 2^(k - MantissaBits + 1) ELSE 1
            IN sign * ulp * RoundHalfEven(a, d * ulp)

FloatAdd(x, y) == FloatRound(x + y, 1)
FloatSub(x, y) == FloatRound(x - y, 1)
\* The quotient of two integers (a frequency and the total).
FloatDiv(a, b) == FloatRound(a * One, b)

\* ---------------------------------------------------------- dataProcessor
RECURSIVE SumFrequency(_, _)
SumFrequency(items, i) ==
    IF i = 0 THEN 0 ELSE SumFrequency(items, i - 1) + items[i].frequency

\* cumulativeProbability after the first i items, from "start".
RECURSIVE Cumulative(_, _, _)
Cumulative(items, i, start) ==
    IF i = 0 THEN start
    ELSE FloatAdd(Cumulative(items, i - 1, start), items[i].probability)

\* "{...item, field: x}": the item with its fields kept and the new ones set.
WithCCDF(dataWithProbability, start) ==
    [i \in 1..Len(dataWithProbability) |->
        LET cumulativeProbability == Cumulative(dataWithProbability, i, start) IN
        [cdf |-> cumulativeProbability,
         ccdf |-> FloatSub(One, cumulativeProbability)] @@ dataWithProbability[i]]

WithProbability(items) ==
    LET totalObservations == SumFrequency(items, Len(items)) IN
    [i \in 1..Len(items) |->
        [probability |-> FloatDiv(items[i].frequency, totalObservations)] @@ items[i]]

\* A calculateCCDF whose running sum outlives the call: run on its own
\* output it goes on from the cdf the first run ended with.
calculateCCDFKeepsRunningSum(items) ==
    IF Len(items) = 0
    THEN [raised |-> "EmptyInput", message |-> "Data must be a non-empty array",
          value |-> None]
    ELSE [raised |-> "none", message |-> "",
          value |-> WithCCDF(WithProbability(items),
                             IF "cdf" \in DOMAIN items[Len(items)]
                             THEN items[Len(items)].cdf ELSE 0)]

calculateCCDF(items) ==
    IF Len(items) = 0
    THEN [raised |-> "EmptyInput", message |-> "Data must be a non-empty array",
          value |-> None]
    ELSE [raised |-> "none", message |-> "",
          value |-> WithCCDF(WithProbability(items), 0)]

\* --------------------------------------------------- DistributionAnalyzer
\* getConfidenceLevel, the same in the three families: the tier of the score.
getConfidenceLevel(rSquared) ==
    IF rSquared > 98 THEN "Very High"
    ELSE IF rSquared > 95 THEN "High"
    ELSE IF rSquared > 90 THEN "Moderate"
    ELSE IF rSquared > 80 THEN "Low"
    ELSE "Very Low"

\* What the analyzer families compute for the goodness of fit of one
\* dataset: the authoritative score (R squared of the family's regression),
\* the Kolmogorov-Smirnov verdict and the AIC.  The family verdict
\* (isPowerLaw, isLogNormal, isExponential) is "score > 0.9" and the
\* confidence score is the score itself.
calculateGoodnessOfFit(rSquared, ksSignificant, aic) ==
    [rSquared |-> rSquared,
     kolmogorovSmirnov |-> [significant |-> ksSignificant],
     aic |-> aic,
     confidenceLevel |-> getConfidenceLevel(rSquared),
     isFamily |-> rSquared > GoodFitThreshold,
     confidenceScore |-> rSquared]

\* DistributionAnalyzer.isGoodFit, inherited unchanged by the three families.
isGoodFit(analysisResult) ==
    LET gof == analysisResult.goodnessOfFit IN
    \/ Truthy(gof.rSquared) /\ gof.rSquared > GoodFitThreshold
    \/ Truthy(gof.confidenceScore) /\ gof.confidenceScore > GoodFitThreshold
    \/ ~gof.kolmogorovSmirnov.significant

\* DistributionAnalyzer.getConfidenceScore: rSquared is always present in the
\* results of the three families, so the first branch decides.
getConfidenceScore(analysisResult) ==
    Max2(0, Min2(100, analysisResult.goodnessOfFit.rSquared))

\* String.prototype.toLowerCase on the names of the tiers.
toLowerCase(confidenceLevel) ==
    CASE confidenceLevel = "Very High" -> "very high"
      [] confidenceLevel = "High" -> "high"
      [] confidenceLevel = "Moderate" -> "moderate"
      [] confidenceLevel = "Low" -> "low"
      [] confidenceLevel = "Very Low" -> "very low"

\* DistributionAnalyzer.getSummary, inherited unchanged by the three
\* families: the sentence, by what it says. It names a tier ("Data shows
\* <tier> evidence of ...") only for a good fit.
getSummary(analyzer, analysisResult) ==
    LET isGood == isGoodFit(analysisResult)
        confidence == getConfidenceScore(analysisResult)
        confidenceLevel == IF confidence > 95 THEN "Very High"
                           ELSE IF confidence > 90 THEN "High"
                           ELSE IF confidence > 80 THEN "Moderate"
                           ELSE IF confidence > 60 THEN "Low"
                           ELSE "Very Low"
    IN [evidence |-> IF isGood THEN toLowerCase(confidenceLevel) ELSE "not strong",
        displayName |-> analyzer.displayName,
        confidence |-> confidence]

\* ----------------------------------------------------- DistributionUtils
\* The comparator handed to results.sort in rankResults: negative when a
\* sorts before b.
rankCompare(a, b) ==
    LET confidenceDiff == b.confidenceScore - a.confidenceScore IN
    IF Abs(confidenceDiff) > ConfidenceBand THEN confidenceDiff
    ELSE IF Truthy(a.goodnessOfFit.aic) /\ Truthy(b.goodnessOfFit.aic)
         THEN a.goodnessOfFit.aic - b.goodnessOfFit.aic
    ELSE b.validDataPoints - a.validDataPoints

Reverse(s) == [i \in 1..Len(s) |-> s[Len(s) + 1 - i]]

\* Array.prototype.sort as Node runs it on an array shorter than 64 elements:
\* the leading run is found (and reversed when strictly descending), then
\* every later element is placed by binary insertion.  The sort is stable
\* for a consistent comparator; for an inconsistent one this is the order
\* Node produces.
RECURSIVE CountRun(_, _, _)
CountRun(s, isDescending, idx) ==
    IF idx > Len(s) THEN Len(s)
    ELSE LET order == rankCompare(s[idx], s[idx - 1]) IN
         IF (isDescending /\ order >= 0) \/ (~isDescending /\ order < 0)
         THEN idx - 1
         ELSE CountRun(s, isDescending, idx + 1)

RECURSIVE BinarySearch(_, _, _, _)
BinarySearch(s, pivot, left, right) ==
    IF left < right
    THEN LET mid == left + ((right - left) \div 2) IN
         IF rankCompare(pivot, s[mid]) < 0
         THEN BinarySearch(s, pivot, left, mid)
         ELSE BinarySearch(s, pivot, mid + 1, right)
    ELSE left

RECURSIVE BinaryInsertionSort(_, _)
BinaryInsertionSort(s, start) ==
    IF start > Len(s) THEN s
    ELSE LET pos == BinarySearch(s, s[start], 1, start)
             moved == SubSeq(s, 1, pos - 1) \o <<s[start]>>
                      \o SubSeq(s, pos, start - 1)
                      \o SubSeq(s, start + 1, Len(s))
         IN BinaryInsertionSort(moved, start + 1)

ArraySort(s) ==
    IF Len(s) < 2 THEN s
    ELSE LET isDescending == rankCompare(s[2], s[1]) < 0
             runLength == CountRun(s, isDescending, 3)
             run == IF isDescending
                    THEN Reverse(SubSeq(s, 1, runLength))
                         \o SubSeq(s, runLength + 1, Len(s))
                    ELSE s
         IN BinaryInsertionSort(run, runLength + 1)

standardizeResult(rawResult, analyzer) ==
    [distributionType |-> analyzer.name,
     displayName |-> analyzer.displayName,
     goodnessOfFit |-> rawResult.goodnessOfFit,
     isGoodFit |-> isGoodFit(rawResult),
     confidenceScore |-> getConfidenceScore(rawResult),
     summary |-> getSummary(analyzer, rawResult),
     validDataPoints |-> rawResult.validDataPoints]

\* rankResults sorts the array it is given in place and returns that same
\* array: the value below is both the returned list and the new content of
\* the caller's array.
rankResults(results) == ArraySort(results)

\* A getBestFit that searches the ranked list for its first good fit.
getBestFitFirstGood(results) ==
    LET rankedResults == rankResults(results)
        good == {i \in 1..Len(rankedResults) : rankedResults[i].isGoodFit}
    IN IF good = {} THEN None
       ELSE rankedResults[CHOOSE i \in good : \A j \in good : i <= j]

\* getBestFit ranks (again in place) and looks at the first entry only.
getBestFit(results) ==
    LET rankedResults == rankResults(results) IN
    IF Len(rankedResults) > 0 /\ rankedResults[1].isGoodFit
    THEN rankedResults[1]
    ELSE None

\* ------------------------------------------------------------------ state
VARIABLES
    analyzers,          \* AnalysisEngine.analyzers: name -> analyzer instance
    analyzerKeys,       \* the keys of that Map in its iteration (insertion) order
    defaultAnalyzers,   \* AnalysisEngine.defaultAnalyzers: ordered names
    call,               \* the engine operation called last, with its arguments
    ret,                \* how that call ended: the error raised or the value
    calls,              \* validateData / analyze invocations made by that call
    dataset,            \* the caller's array handed to calculateCCDF or to an analyzer
    given,      \* the array a caller hands to rankResults / getBestFit
    list,       \* that same array after the call (sorted in place)
    ranked,     \* the list rankResults returned
    best,       \* the value getBestFit returned
    fn,         \* which DistributionUtils function was called
    analysisResults,        \* the page script's global analysisResults
    visibleDistributions,   \* the page script's global visibleDistributions
    page                    \* what the page shows: error message, results

engineVars == <<analyzers, analyzerKeys, defaultAnalyzers, call, ret, calls, dataset>>
rankVars == <<given, list, ranked, best, fn>>
pageVars == <<analysisResults, visibleDistributions, page>>
vars == <<analyzers, analyzerKeys, defaultAnalyzers, call, ret, calls, dataset,
          given, list, ranked, best, fn,
          analysisResults, visibleDistributions, page>>

\* The page script as loaded: no results, every distribution visible, no
\* error shown and the results container hidden.
PageIdle ==
    /\ analysisResults = None
    /\ visibleDistributions = <<"powerLaw", "logNormal", "exponential">>
    /\ page = [errorMsg |-> <<>>, resultsHidden |-> TRUE, bestDistribution |-> ""]

\* ------------------------------------------------------ analyzer instances
Names == {"powerLaw", "logNormal", "exponential"}
NoName == ""            \* an analyzer whose name property was never set

DisplayName(name) ==
    CASE name = "powerLaw" -> "Power Law"
      [] name = "logNormal" -> "Log-Normal"
      [] name = "exponential" -> "Exponential"
      [] OTHER -> "none"

\* What validateData of an instance does on the dataset under analysis.
Suitable ==
    [threw |-> FALSE, valid |-> TRUE, warning |-> FALSE,
     message |-> <<"Data is suitable">>]
SuitableWithWarning(name) ==
    [threw |-> FALSE, valid |-> TRUE, warning |-> TRUE,
     message |-> <<"Warning: analysis may be unreliable for", name>>]
TooFewPoints(name) ==
    [threw |-> FALSE, valid |-> FALSE, warning |-> FALSE,
     message |-> <<"Need more data points for", name>>]
ValidateThrows ==
    [threw |-> TRUE, valid |-> FALSE, warning |-> FALSE,
     message |-> <<"validateData() must be implemented by subclass">>]

\* What analyze of an instance does on that dataset: it throws, or it
\* returns a raw result whose goodness of fit the family computed.
RSquaredValues == {80, 88, 96}
FamilyAicValues == {100}
FamilyValidDataPoints == {5}
AnalyzeThrows == [threw |-> TRUE]
RawResult(rSquared, ksSignificant, aic, points) ==
    [threw |-> FALSE,
     goodnessOfFit |-> calculateGoodnessOfFit(rSquared, ksSignificant, aic),
     validDataPoints |-> points]
RawResults ==
    {RawResult(r, k, a, p) : r \in RSquaredValues, k \in BOOLEAN,
                             a \in FamilyAicValues, p \in FamilyValidDataPoints}

\* An instance is drawn with the analyze outcome only when validateData
\* accepts the dataset: otherwise the engine never asks for it.
AnalyzersNamed(name, rawResults) ==
    {[name |-> name, displayName |-> DisplayName(name),
      validation |-> Suitable, outcome |-> o] : o \in rawResults \cup {AnalyzeThrows}}
    \cup
    {[name |-> name, displayName |-> DisplayName(name),
      validation |-> v, outcome |-> AnalyzeThrows] :
         v \in {TooFewPoints(name), ValidateThrows}}

\* The instances analyses are run with.
Analyzers == UNION {AnalyzersNamed(n, RawResults) : n \in Names}

\* The instances the registry is exercised with: per name one that fits and
\* one whose analyze throws, and one instance without a name.
RegistryAnalyzers ==
    {a \in UNION {AnalyzersNamed(n, {RawResult(96, FALSE, 100, 5)}) : n \in Names} :
        a.validation.valid}
    \cup {[name |-> NoName, displayName |-> DisplayName(NoName),
           validation |-> Suitable, outcome |-> AnalyzeThrows]}

\* ---------------------------------------------------------- AnalysisEngine
NoError == "none"
Returned(value) == [raised |-> NoError, message |-> "", value |-> value]
Raised(kind, message) == [raised |-> kind, message |-> message, value |-> None]

Invocation(name, method) == [analyzer |-> name, method |-> method]

\* ------------------------------------------------- the built-in analyzers
\* The fit itself (regression, parameters, goodness of fit) is arithmetic on
\* logarithms; the model keeps which points are fitted, the counts reported
\* and the conditions under which a step of the fit throws, and leaves the
\* numbers of the fit uncomputed: a logarithm is kept as the number it is of.
log10(value) == IF value <= 0 THEN None ELSE [log10 |-> value]

addLogTransforms(items) ==
    [i \in 1..Len(items) |->
        [logValue |-> log10(items[i].value),
         logCCDF |-> IF items[i].ccdf > 0 THEN log10(items[i].ccdf) ELSE None]
        @@ items[i]]

\* A filter that looks at logValue only.
filterValidLogDataIgnoresCCDF(items) ==
    SelectSeq(items, LAMBDA item : item.logValue # None)

filterValidLogData(items) ==
    SelectSeq(items, LAMBDA item : item.logValue # None /\ item.logCCDF # None)

addLnTransforms(items) ==
    [i \in 1..Len(items) |->
        [lnValue |-> IF items[i].value > 0 THEN [ln |-> items[i].value] ELSE None]
        @@ items[i]]

\* linearRegression throws for fewer than 2 points and when
\* n * sumXX - sumX * sumX is (nearly) 0, that is when all x are equal: the
\* x drawn here are integers or their logarithms, far apart when different.
RegressionThrows(xs) ==
    \/ Len(xs) < 2
    \/ \A i, j \in 1..Len(xs) : xs[i] = xs[j]

EmptyInputError == Raised("EmptyInput", "Data must be a non-empty array")
InsufficientValidDataError(message) == Raised("InsufficientValidData", message)
RegressionError(xs) ==
    IF Len(xs) < 2
    THEN Raised("InsufficientData", "Data must be an array with at least 2 points")
    ELSE Raised("DegenerateInput", "x values are too similar")

\* A result that lists every input point, fitted or not.
FitResultListsEveryPoint(analyzer, fitted, items) ==
    Returned([distributionName |-> analyzer.name,
              theoreticalValues |->
                  [i \in 1..Len(items) |->
                      [theoreticalCCDF |-> [fitOf |-> analyzer.name]] @@ items[i]],
              validDataPoints |-> Len(fitted),
              originalDataPoints |-> Len(items)])

\* The raw result: the points fitted (theoreticalValues lists them with the
\* theoretical CCDF added) and the two counts.
FitResult(analyzer, fitted, items) ==
    Returned([distributionName |-> analyzer.name,
              theoreticalValues |->
                  [i \in 1..Len(fitted) |->
                      [theoreticalCCDF |-> [fitOf |-> analyzer.name]] @@ fitted[i]],
              validDataPoints |-> Len(fitted),
              originalDataPoints |-> Len(items)])

\* The x handed to linearRegression.
LogValues(items) == [i \in 1..Len(items) |-> items[i].logValue]
Values(items) == [i \in 1..Len(items) |-> items[i].value]

\* normalInverseCDF of a probability kept as the fraction <<numerator,
\* denominator>>, denominator > 0: it throws unless 0 < p < 1, and its
\* value, increasing in p, is kept as the probability it is of.
normalInverseCDF(p) ==
    IF p[1] <= 0 \/ p[1] >= p[2]
    THEN Raised("InvalidArgument", "Probability must be between 0 and 1")
    ELSE Returned([quantileOf |-> p])

\* A plotting position without the Blom offsets: (i + 1) / n.
EmpiricalQuantileWithoutOffsets(i, n) == <<8 * (i + 1), 8 * n>>

\* "(i + 1 - 3 / 8) / (n + 1 / 4)", numerator and denominator in eighths:
\* both are computed exactly in floating point.
EmpiricalQuantile(i, n) == <<8 * (i + 1) - 3, 8 * n + 2>>

\* "[...data].sort((a, b) => a.lnValue - b.lnValue)": a stable sort of a
\* copy; the logarithm is increasing, so the values decide.
RECURSIVE InsertByLnValue(_, _)
InsertByLnValue(sorted, item) ==
    IF sorted = <<>> THEN <<item>>
    ELSE IF sorted[Len(sorted)].lnValue.ln <= item.lnValue.ln THEN Append(sorted, item)
    ELSE Append(InsertByLnValue(SubSeq(sorted, 1, Len(sorted) - 1), item),
                sorted[Len(sorted)])
RECURSIVE SortByLnValue(_, _)
SortByLnValue(items, i) ==
    IF i = 0 THEN <<>> ELSE InsertByLnValue(SortByLnValue(items, i - 1), items[i])

generateNormalProbabilityPlot(items) ==
    LET sortedData == SortByLnValue(items, Len(items))
        n == Len(sortedData)
        quantile == [i \in 1..n |-> normalInverseCDF(EmpiricalQuantile(i - 1, n))]
        plotData == [i \in 1..n |->
                        [lnValue |-> sortedData[i].lnValue,
                         theoreticalQuantile |-> quantile[i].value,
                         empiricalQuantile |-> EmpiricalQuantile(i - 1, n),
                         originalValue |-> sortedData[i].value,
                         ccdf |-> sortedData[i].ccdf]]
        xs == [i \in 1..n |-> quantile[i].value]
    IN IF \E i \in 1..n : quantile[i].raised # NoError
       THEN quantile[CHOOSE i \in 1..n : quantile[i].raised # NoError]
       ELSE IF RegressionThrows(xs) THEN RegressionError(xs)
       ELSE Returned([plotData |-> plotData])

\* analyze returns its outcome; the analyzer object and the caller's array
\* are listed as the call leaves them: every step maps or filters into a
\* new array of new items, and no field of "this" is assigned.
powerLawAnalyze(analyzer, items) ==
    LET logLogData == filterValidLogData(addLogTransforms(items))
        outcome == IF Len(items) = 0 THEN EmptyInputError
               ELSE IF Len(logLogData) < 3
               THEN InsufficientValidDataError("Need at least 3 points with non-zero CCDF")
               ELSE IF RegressionThrows(LogValues(logLogData))
               THEN RegressionError(LogValues(logLogData))
               ELSE FitResult(analyzer, logLogData, items)
    IN [ret |-> outcome, analyzer |-> analyzer, items |-> items]

logNormalAnalyze(analyzer, items) ==
    LET validLnData == SelectSeq(addLnTransforms(items), LAMBDA item : item.lnValue # None)
        outcome == IF Len(items) = 0 THEN EmptyInputError
               ELSE IF Len(validLnData) < 3
               THEN InsufficientValidDataError("Need at least 3 points with positive values")
               ELSE LET plot == generateNormalProbabilityPlot(validLnData)
                        fit == FitResult(analyzer, validLnData, items)
                    IN IF plot.raised # NoError THEN plot
                       ELSE [fit EXCEPT !.value =
                                [normalProbabilityPlot |-> plot.value] @@ fit.value]
    IN [ret |-> outcome, analyzer |-> analyzer, items |-> items]

exponentialAnalyze(analyzer, items) ==
    LET validData == SelectSeq(items, LAMBDA item : item.value > 0)
        plotted == SelectSeq(validData, LAMBDA item : item.ccdf > 0)
        outcome == IF Len(items) = 0 THEN EmptyInputError
               ELSE IF Len(validData) < 3
               THEN InsufficientValidDataError("Need at least 3 points with positive values")
               ELSE IF RegressionThrows(Values(plotted))
               THEN RegressionError(Values(plotted))
               ELSE FitResult(analyzer, validData, items)
    IN [ret |-> outcome, analyzer |-> analyzer, items |-> items]

\* An analyze that keeps the array it was given on the analyzer object.
analyzeRemembersData(analyzer, items) ==
    LET outcome == CASE analyzer.name = "powerLaw" -> powerLawAnalyze(analyzer, items)
                     [] analyzer.name = "logNormal" -> logNormalAnalyze(analyzer, items)
                     [] OTHER -> exponentialAnalyze(analyzer, items)
    IN [outcome EXCEPT !.analyzer = [lastData |-> items] @@ analyzer]

analyze(analyzer, items) ==
    CASE analyzer.name = "powerLaw" -> powerLawAnalyze(analyzer, items)
      [] analyzer.name = "logNormal" -> logNormalAnalyze(analyzer, items)
      [] OTHER -> exponentialAnalyze(analyzer, items)

RECURSIVE MaxValue(_, _)
MaxValue(items, i) ==
    IF i = 1 THEN items[1].value ELSE Max2(MaxValue(items, i - 1), items[i].value)
RECURSIVE MinValue(_, _)
MinValue(items, i) ==
    IF i = 1 THEN items[1].value ELSE Min2(MinValue(items, i - 1), items[i].value)

\* "Math.max(...values) / Math.min(...values) < 10": the quotient is
\* Infinity or NaN when the smallest value is 0, and at most 1 or negative
\* when it is negative.
ValueRangeBelowTen(items) ==
    LET largest == MaxValue(items, Len(items))
        smallest == MinValue(items, Len(items))
    IN IF smallest > 0 THEN largest < 10 * smallest
       ELSE smallest < 0

Validation(valid, warning, message) ==
    [threw |-> FALSE, valid |-> valid, warning |-> warning, message |-> message]

\* A pre-check that counts the positive values, as the other two do.
powerLawValidateDataCountsPositiveValues(items) ==
    IF Len(items) < 5
    THEN Validation(FALSE, FALSE, <<"Need at least data points:", 5>>)
    ELSE IF Len(SelectSeq(items, LAMBDA item : item.value > 0)) < 3
    THEN Validation(FALSE, FALSE, <<"Not enough data points with positive CCDF values">>)
    ELSE IF ValueRangeBelowTen(items)
    THEN Validation(TRUE, TRUE, <<"Warning: Data spans less than one order of magnitude">>)
    ELSE Validation(TRUE, FALSE, <<"Data is suitable">>)

powerLawValidateData(items) ==
    IF Len(items) < 5
    THEN Validation(FALSE, FALSE, <<"Need at least data points:", 5>>)
    ELSE IF Len(filterValidLogData(addLogTransforms(items))) < 3
    THEN Validation(FALSE, FALSE, <<"Not enough data points with positive CCDF values">>)
    ELSE IF ValueRangeBelowTen(items)
    THEN Validation(TRUE, TRUE, <<"Warning: Data spans less than one order of magnitude">>)
    ELSE Validation(TRUE, FALSE, <<"Data is suitable">>)

\* minimumPoints is 5 for the log-normal and 3 for the exponential analyzer.
PositiveValuesValidateData(items, minimumPoints) ==
    LET positiveValues == SelectSeq(items, LAMBDA item : item.value > 0) IN
    IF Len(items) < minimumPoints
    THEN Validation(FALSE, FALSE, <<"Need at least data points:", minimumPoints>>)
    ELSE IF Len(positiveValues) < 3
    THEN Validation(FALSE, FALSE, <<"Need at least 3 data points with positive values">>)
    ELSE IF Len(positiveValues) < Len(items)
    THEN Validation(TRUE, TRUE,
                    <<"Warning: data points will be excluded:",
                      Len(items) - Len(positiveValues)>>)
    ELSE Validation(TRUE, FALSE, <<"Data is suitable">>)

validateData(analyzer, items) ==
    [ret |-> Returned(CASE analyzer.name = "powerLaw" -> powerLawValidateData(items)
                        [] analyzer.name = "logNormal" ->
                               PositiveValuesValidateData(items, 5)
                        [] OTHER -> PositiveValuesValidateData(items, 3)),
     analyzer |-> analyzer, items |-> items]


\* An analyzeSingle that runs validateData but analyzes whatever it reported.
analyzeSingleIgnoresValidation(analyzerName) ==
    IF analyzerName \notin DOMAIN analyzers
    THEN [ret |-> Raised("AnalyzerNotFound", analyzerName), calls |-> <<>>]
    ELSE LET analyzer == analyzers[analyzerName] IN
         IF analyzer.validation.threw
         THEN [ret |-> Raised("ValidateThrew", analyzer.validation.message),
               calls |-> <<Invocation(analyzerName, "validateData")>>]
         ELSE IF analyzer.outcome.threw
         THEN [ret |-> Raised("AnalyzeThrew", "analyze failed"),
               calls |-> <<Invocation(analyzerName, "validateData"),
                           Invocation(analyzerName, "analyze")>>]
         ELSE [ret |-> Returned(standardizeResult(analyzer.outcome, analyzer)),
               calls |-> <<Invocation(analyzerName, "validateData"),
                           Invocation(analyzerName, "analyze")>>]

\* analyzeSingle as a function of the engine state: the outcome and the
\* analyzer methods it invoked, in order.
analyzeSingle(analyzerName) ==
    IF analyzerName \notin DOMAIN analyzers
    THEN [ret |-> Raised("AnalyzerNotFound", analyzerName), calls |-> <<>>]
    ELSE LET analyzer == analyzers[analyzerName]
             validation == analyzer.validation
         IN
         IF validation.threw
         THEN [ret |-> Raised("ValidateThrew", validation.message),
               calls |-> <<Invocation(analyzerName, "validateData")>>]
         ELSE IF ~validation.valid
         THEN [ret |-> Raised("ValidationFailed", validation.message),
               calls |-> <<Invocation(analyzerName, "validateData")>>]
         ELSE IF analyzer.outcome.threw
         THEN [ret |-> Raised("AnalyzeThrew", "analyze failed"),
               calls |-> <<Invocation(analyzerName, "validateData"),
                           Invocation(analyzerName, "analyze")>>]
         ELSE [ret |-> Returned(standardizeResult(analyzer.outcome, analyzer)),
               calls |-> <<Invocation(analyzerName, "validateData"),
                           Invocation(analyzerName, "analyze")>>]

\* "(confidence * 100).toFixed(1)": the score as a percentage with one
\* decimal, here in tenths of a percent.
PercentTenths(confidenceScore) == confidenceScore * 10

SummaryCounts(rankedResults, errors) ==
    [analyzersRun |-> Len(rankedResults) + Len(errors),
     successfulAnalyses |-> Len(rankedResults),
     hasErrors |-> Len(errors) > 0,
     errorCount |-> Len(errors)]

\* The texts are kept as their parts: the sentence chosen, the display name
\* it mentions, the percentage, the alternatives and the error messages.
Alternatives(rankedResults) ==
    IF Len(rankedResults) > 1
    THEN LET others == SubSeq(rankedResults, 2, Min2(3, Len(rankedResults))) IN
         [i \in 1..Len(others) |->
             [displayName |-> others[i].displayName,
              percent |-> PercentTenths(others[i].confidenceScore)]]
    ELSE <<>>

\* A generateSummary that looks at the ranked list before it looks at
\* bestFit.
generateSummaryResultsFirst(rankedResults, bestFit, errors) ==
    IF Len(rankedResults) > 0
    THEN [verdict |-> [sentence |-> "does not clearly follow", names |-> "none"],
          confidence |-> rankedResults[1].confidenceScore,
          recommendation |->
              [sentence |-> "closest match",
               names |-> rankedResults[1].displayName,
               percent |-> PercentTenths(rankedResults[1].confidenceScore),
               others |-> <<>>, errors |-> <<>>]]
         @@ SummaryCounts(rankedResults, errors)
    ELSE [verdict |-> [sentence |-> "unable to analyze", names |-> "none"],
          confidence |-> 0,
          recommendation |->
              [sentence |-> "failed for all", names |-> "none", percent |-> 0,
               others |-> <<>>,
               errors |-> [i \in 1..Len(errors) |-> errors[i].error]]]
         @@ SummaryCounts(rankedResults, errors)

generateSummary(rankedResults, bestFit, errors) ==
    IF bestFit # None
    THEN [verdict |-> [sentence |-> "appears to follow",
                       names |-> bestFit.displayName],
          confidence |-> bestFit.confidenceScore,
          recommendation |->
              [sentence |-> "follows",
               names |-> bestFit.displayName,
               percent |-> PercentTenths(bestFit.confidenceScore),
               others |-> Alternatives(rankedResults),
               errors |-> <<>>]]
         @@ SummaryCounts(rankedResults, errors)
    ELSE IF Len(rankedResults) > 0
    THEN [verdict |-> [sentence |-> "does not clearly follow", names |-> "none"],
          confidence |-> rankedResults[1].confidenceScore,
          recommendation |->
              [sentence |-> "closest match",
               names |-> rankedResults[1].displayName,
               percent |-> PercentTenths(rankedResults[1].confidenceScore),
               others |-> <<>>, errors |-> <<>>]]
         @@ SummaryCounts(rankedResults, errors)
    ELSE [verdict |-> [sentence |-> "unable to analyze", names |-> "none"],
          confidence |-> 0,
          recommendation |->
              [sentence |-> "failed for all", names |-> "none", percent |-> 0,
               others |-> <<>>,
               errors |-> [i \in 1..Len(errors) |-> errors[i].error]]]
         @@ SummaryCounts(rankedResults, errors)

\* What one pass of the loop adds to the results, errors and invocations.
Collect(acc, name, single) ==
    IF single.ret.raised = NoError
    THEN [acc EXCEPT !.results = Append(@, single.ret.value),
                     !.calls = @ \o single.calls]
    ELSE [acc EXCEPT !.errors = Append(@, [analyzer |-> name,
                                           error |-> <<single.ret.raised,
                                                       single.ret.message>>]),
                     !.calls = @ \o single.calls]

\* A loop that records the first failure and leaves the rest of the names
\* unanalyzed.
RECURSIVE RunEachStopsAtFailure(_, _)
RunEachStopsAtFailure(names, acc) ==
    IF names = <<>> THEN acc
    ELSE LET single == analyzeSingle(Head(names)) IN
         IF single.ret.raised = NoError
         THEN RunEachStopsAtFailure(Tail(names), Collect(acc, Head(names), single))
         ELSE Collect(acc, Head(names), single)

\* The loop of analyzeMultiple over the requested names, each in its own
\* try / catch.
RECURSIVE RunEach(_, _)
RunEach(names, acc) ==
    IF names = <<>> THEN acc
    ELSE RunEach(Tail(names), Collect(acc, Head(names), analyzeSingle(Head(names))))

EmptyRun == [results |-> <<>>, errors |-> <<>>, calls |-> <<>>]

\* analyzerNames is null (no list passed) or a list; "analyzerNames ||
\* this.defaultAnalyzers" keeps an empty list, which is truthy.
analyzersToUse(analyzerNames) ==
    IF analyzerNames = None THEN defaultAnalyzers ELSE analyzerNames.names

\* The end of analyzeMultiple.  rankResults sorts the results array in place;
\* getBestFit then sorts the same array once more, so the list returned as
\* "results" is the array after both sorts.
RankAndSummarize(run) ==
    LET rankedOnce == rankResults(run.results)
        bestFit == getBestFit(rankedOnce)
        rankedResults == rankResults(rankedOnce)
    IN [ret |-> Returned([results |-> rankedResults,
                          bestFit |-> bestFit,
                          errors |-> run.errors,
                          summary |-> generateSummary(rankedResults, bestFit,
                                                      run.errors)]),
        calls |-> run.calls]

\* An analyzeMultiple without the try / catch: the first analyzer failure
\* is raised to the caller.
analyzeMultipleUncaught(analyzerNames) ==
    LET names == analyzersToUse(analyzerNames)
        run == RunEachStopsAtFailure(names, EmptyRun)
    IN IF Len(names) = 0
       THEN [ret |-> Raised("NoAnalyzersConfigured", ""), calls |-> <<>>]
       ELSE IF Len(run.errors) > 0
       THEN [ret |-> Raised(run.errors[1].error[1], run.errors[1].error[2]),
             calls |-> run.calls]
       ELSE RankAndSummarize(run)

\* An analyzeMultiple that treats an empty list like a missing one and falls
\* back to the defaults.
analyzeMultipleEmptyFallsBack(analyzerNames) ==
    LET names == IF analyzerNames = None \/ analyzerNames.names = <<>>
                 THEN defaultAnalyzers ELSE analyzerNames.names
    IN IF Len(names) = 0
       THEN [ret |-> Raised("NoAnalyzersConfigured", ""), calls |-> <<>>]
       ELSE RankAndSummarize(RunEach(names, EmptyRun))

analyzeMultiple(analyzerNames) ==
    LET names == analyzersToUse(analyzerNames) IN
    IF Len(names) = 0
    THEN [ret |-> Raised("NoAnalyzersConfigured", ""), calls |-> <<>>]
    ELSE RankAndSummarize(RunEach(names, EmptyRun))

\* ------------------------------------------------------------- preAnalyze
\* What preAnalyze is handed: something that is not an array, an empty array
\* or the observations the analyzers' validateData answers about.
NotAnArray == "not an array"
EmptyArray == "empty array"
Observations == "observations"
Datasets == {NotAnArray, EmptyArray, Observations}

\* The entry validateDataForAll stores for one analyzer: what validateData
\* returned, or the entry built in the catch block.
ValidationEntry(validation) ==
    IF validation.threw
    THEN [valid |-> FALSE, warning |-> FALSE, error |-> TRUE,
          message |-> <<"Validation error:", validation.message>>]
    ELSE [valid |-> validation.valid, warning |-> validation.warning,
          error |-> FALSE, message |-> validation.message]

\* A validateDataForAll whose catch block stores nothing for the analyzer.
validateDataForAllDropsThrowing ==
    LET kept == SelectSeq(analyzerKeys, LAMBDA name : ~analyzers[name].validation.threw)
    IN [entries |-> [i \in 1..Len(kept) |->
                       [name |-> kept[i],
                        validation |-> ValidationEntry(analyzers[kept[i]].validation)]],
        calls |-> [i \in 1..Len(analyzerKeys) |->
                       Invocation(analyzerKeys[i], "validateData")]]

\* validateDataForAll iterates the Map; the entries of the object it fills
\* are read back by Object.entries in the order they were stored.
validateDataForAll ==
    [entries |-> [i \in 1..Len(analyzerKeys) |->
                    [name |-> analyzerKeys[i],
                     validation |-> ValidationEntry(analyzers[analyzerKeys[i]].validation)]],
     calls |-> [i \in 1..Len(analyzerKeys) |->
                    Invocation(analyzerKeys[i], "validateData")]]

preAnalyze(data) ==
    IF data # Observations
    THEN [ret |-> Returned([suitable |-> <<>>, unsuitable |-> <<>>,
                            warnings |-> <<"Data is empty or invalid">>,
                            recommendation |->
                                [sentence |-> "provide valid data", names |-> <<>>]]),
          calls |-> <<>>]
    ELSE LET validations == validateDataForAll
             infos == [i \in 1..Len(validations.entries) |->
                         [name |-> validations.entries[i].name,
                          displayName |-> analyzers[validations.entries[i].name].displayName,
                          validation |-> validations.entries[i].validation]]
             suitable == SelectSeq(infos, LAMBDA info : info.validation.valid)
             unsuitable == SelectSeq(infos, LAMBDA info : ~info.validation.valid)
             warned == SelectSeq(suitable, LAMBDA info : info.validation.warning)
             warnings == [i \in 1..Len(warned) |->
                            <<warned[i].displayName, warned[i].validation.message>>]
             displayNames == [i \in 1..Len(suitable) |-> suitable[i].displayName]
             recommendation ==
                 IF Len(suitable) = 0
                 THEN [sentence |-> "no analyzers can process", names |-> <<>>]
                 ELSE IF Len(suitable) = 1
                 THEN [sentence |-> "only one is possible", names |-> displayNames]
                 ELSE [sentence |-> "several can be analyzed", names |-> displayNames]
         IN [ret |-> Returned([suitable |-> suitable, unsuitable |-> unsuitable,
                               warnings |-> warnings,
                               recommendation |-> recommendation]),
             calls |-> validations.calls]


\* ----------------------------------------------------------------- actions
\* indexOf + splice(index, 1): the first occurrence of name leaves the list.
IndexOf(seq, name) ==
    IF \E i \in 1..Len(seq) : seq[i] = name
    THEN CHOOSE i \in 1..Len(seq) : seq[i] = name /\ \A j \in 1..(i - 1) : seq[j] # name
    ELSE 0
\* A removal that splices at the position after the name's.
RemoveNameAfter(seq, name) ==
    LET index == IndexOf(seq, name) IN
    IF index > 0
    THEN SubSeq(seq, 1, index) \o SubSeq(seq, index + 2, Len(seq))
    ELSE seq
RemoveName(seq, name) ==
    LET index == IndexOf(seq, name) IN
    IF index > 0
    THEN SubSeq(seq, 1, index - 1) \o SubSeq(seq, index + 1, Len(seq))
    ELSE seq
Contains(seq, x) == \E i \in 1..Len(seq) : seq[i] = x

\* Map.set: a new key goes last in the iteration order, a key already in the
\* Map keeps its place.
MapSetKey(keys, key) == IF Contains(keys, key) THEN keys ELSE Append(keys, key)

\* A registerAnalyzer that pushes the name whenever isDefault is set, without
\* looking for it in the list.
registerAnalyzerAlwaysPushes(analyzer, isDefault) ==
    /\ call' = [op |-> "registerAnalyzer", analyzer |-> analyzer,
                isDefault |-> isDefault]
    /\ calls' = <<>>
    /\ IF analyzer.name = NoName
       THEN /\ ret' = Raised("MissingIdentity", "Analyzer must have a name property")
            /\ UNCHANGED <<analyzers, analyzerKeys, defaultAnalyzers>>
       ELSE /\ analyzers' = (analyzer.name :> analyzer) @@ analyzers
            /\ analyzerKeys' = MapSetKey(analyzerKeys, analyzer.name)
            /\ defaultAnalyzers' =
                 IF isDefault
                 THEN Append(defaultAnalyzers, analyzer.name)
                 ELSE defaultAnalyzers
            /\ ret' = Returned(None)
    /\ UNCHANGED <<dataset, rankVars, pageVars>>

\* A registerAnalyzer that stores the analyzer first and looks at its name
\* afterwards.
registerAnalyzerChecksNameLate(analyzer, isDefault) ==
    /\ call' = [op |-> "registerAnalyzer", analyzer |-> analyzer,
                isDefault |-> isDefault]
    /\ calls' = <<>>
    /\ analyzers' = (analyzer.name :> analyzer) @@ analyzers
    /\ analyzerKeys' = MapSetKey(analyzerKeys, analyzer.name)
    /\ defaultAnalyzers' =
         IF isDefault /\ ~Contains(defaultAnalyzers, analyzer.name)
         THEN Append(defaultAnalyzers, analyzer.name)
         ELSE defaultAnalyzers
    /\ ret' = IF analyzer.name = NoName
              THEN Raised("MissingIdentity", "Analyzer must have a name property")
              ELSE Returned(None)
    /\ UNCHANGED <<dataset, rankVars, pageVars>>

RegisterAnalyzer(analyzer, isDefault) ==
    /\ call' = [op |-> "registerAnalyzer", analyzer |-> analyzer,
                isDefault |-> isDefault]
    /\ calls' = <<>>
    /\ IF analyzer.name = NoName
       THEN /\ ret' = Raised("MissingIdentity", "Analyzer must have a name property")
            /\ UNCHANGED <<analyzers, analyzerKeys, defaultAnalyzers>>
       ELSE /\ analyzers' = (analyzer.name :> analyzer) @@ analyzers
            /\ analyzerKeys' = MapSetKey(analyzerKeys, analyzer.name)
            /\ defaultAnalyzers' =
                 IF isDefault /\ ~Contains(defaultAnalyzers, analyzer.name)
                 THEN Append(defaultAnalyzers, analyzer.name)
                 ELSE defaultAnalyzers
            /\ ret' = Returned(None)
    /\ UNCHANGED <<dataset, rankVars, pageVars>>

\* An unregisterAnalyzer that deletes the mapping entry and forgets the
\* defaults list.
unregisterAnalyzerKeepsDefault(analyzerName) ==
    /\ call' = [op |-> "unregisterAnalyzer", analyzerName |-> analyzerName]
    /\ calls' = <<>>
    /\ analyzers' = [n \in DOMAIN analyzers \ {analyzerName} |-> analyzers[n]]
    /\ analyzerKeys' = RemoveName(analyzerKeys, analyzerName)
    /\ defaultAnalyzers' = defaultAnalyzers
    /\ ret' = Returned(None)
    /\ UNCHANGED <<dataset, rankVars, pageVars>>

UnregisterAnalyzer(analyzerName) ==
    /\ call' = [op |-> "unregisterAnalyzer", analyzerName |-> analyzerName]
    /\ calls' = <<>>
    /\ analyzers' = [n \in DOMAIN analyzers \ {analyzerName} |-> analyzers[n]]
    /\ analyzerKeys' = RemoveName(analyzerKeys, analyzerName)
    /\ defaultAnalyzers' = RemoveName(defaultAnalyzers, analyzerName)
    /\ ret' = Returned(None)
    /\ UNCHANGED <<dataset, rankVars, pageVars>>

AnalyzeSingle(analyzerName) ==
    /\ call' = [op |-> "analyzeSingle", analyzerName |-> analyzerName]
    /\ LET outcome == analyzeSingle(analyzerName) IN
         /\ ret' = outcome.ret
         /\ calls' = outcome.calls
    /\ UNCHANGED <<analyzers, analyzerKeys, defaultAnalyzers>>
    /\ UNCHANGED <<dataset, rankVars, pageVars>>

AnalyzeMultiple(analyzerNames) ==
    /\ call' = [op |-> "analyzeMultiple", analyzerNames |-> analyzerNames]
    /\ LET outcome == analyzeMultiple(analyzerNames) IN
         /\ ret' = outcome.ret
         /\ calls' = outcome.calls
    /\ UNCHANGED <<analyzers, analyzerKeys, defaultAnalyzers>>
    /\ UNCHANGED <<dataset, rankVars, pageVars>>

PreAnalyze(data) ==
    /\ call' = [op |-> "preAnalyze", data |-> data]
    /\ LET outcome == preAnalyze(data) IN
         /\ ret' = outcome.ret
         /\ calls' = outcome.calls
    /\ UNCHANGED <<analyzers, analyzerKeys, defaultAnalyzers>>
    /\ UNCHANGED <<dataset, rankVars, pageVars>>

NameLists == UNION {[1..n -> Names] : n \in 0..MaxNames}
NamesArguments == {None} \cup {[names |-> l] : l \in NameLists}

EngineInit ==
    /\ analyzers = <<>>
    /\ analyzerKeys = <<>>
    /\ defaultAnalyzers = <<>>
    /\ call = [op |-> "new"]
    /\ ret = Returned(None)
    /\ calls = <<>>
    /\ dataset = <<>>

RankIdle ==
    /\ given = <<>>
    /\ list = <<>>
    /\ ranked = <<>>
    /\ best = None
    /\ fn = "none"

Init == EngineInit /\ RankIdle /\ PageIdle

\* The life of one engine: registrations, removals and analyses in any
\* order, from the freshly constructed engine.
Next ==
    \/ \E a \in RegistryAnalyzers, d \in BOOLEAN : RegisterAnalyzer(a, d)
    \/ \E n \in Names : UnregisterAnalyzer(n)
    \/ \E n \in Names : AnalyzeSingle(n)
    \/ \E l \in NamesArguments : AnalyzeMultiple(l)

Spec == Init /\ [][Next]_vars

\* ------------------------------------- analyses over every configuration
\* The configurations registerAnalyzer and unregisterAnalyzer can build: any
\* subset of the names, each mapped to an instance of that name, and as
\* defaults any ordering of any subset of the registered names.
Orderings(S) ==
    {q \in UNION {[1..n -> S] : n \in 0..Cardinality(S)} :
        \A i, j \in 1..Len(q) : i # j => q[i] # q[j]}

\* analyzeSingle and analyzeMultiple look names up and never iterate the Map:
\* one insertion order per set of keys is drawn here, every order in
\* PreAnalysisInit.
KeysInSomeOrder(S) == CHOOSE q \in Orderings(S) : Len(q) = Cardinality(S)

AnalysisInit ==
    /\ \E R \in SUBSET Names :
         /\ analyzers \in {f \in [R -> Analyzers] : \A n \in R : f[n].name = n}
         /\ analyzerKeys = KeysInSomeOrder(R)
         /\ defaultAnalyzers \in Orderings(R)
    /\ call = [op |-> "new"]
    /\ ret = Returned(None)
    /\ calls = <<>>
    /\ dataset = <<>>
    /\ RankIdle
    /\ PageIdle

\* One analysis per configuration: an analysis reads the registry only and
\* leaves it unchanged, so a second call would repeat the first.
AnalysisNext ==
    /\ call.op = "new"
    /\ \/ \E n \in Names : AnalyzeSingle(n)
       \/ \E l \in NamesArguments : AnalyzeMultiple(l)

AnalysisSpec == AnalysisInit /\ [][AnalysisNext]_vars

\* ------------------------------------ pre-analysis over every configuration
\* The instances preAnalyze is run with: per name one for each thing
\* validateData can do on the observations.
ValidationAnalyzers ==
    {[name |-> n, displayName |-> DisplayName(n), validation |-> v,
      outcome |-> RawResult(96, FALSE, 100, 5)] :
        n \in Names, v \in {Suitable}}
    \cup
    UNION {{[name |-> n, displayName |-> DisplayName(n), validation |-> v,
             outcome |-> AnalyzeThrows] :
               v \in {SuitableWithWarning(n), TooFewPoints(n), ValidateThrows}} :
           n \in Names}

PreAnalysisInit ==
    /\ \E R \in SUBSET Names :
         /\ analyzers \in {f \in [R -> ValidationAnalyzers] : \A n \in R : f[n].name = n}
         /\ analyzerKeys \in {q \in Orderings(R) : Len(q) = Cardinality(R)}
         /\ defaultAnalyzers \in Orderings(R)
    /\ call = [op |-> "new"]
    /\ ret = Returned(None)
    /\ calls = <<>>
    /\ dataset = <<>>
    /\ RankIdle
    /\ PageIdle

PreAnalysisNext ==
    /\ call.op = "new"
    /\ \E d \in Datasets : PreAnalyze(d)

PreAnalysisSpec == PreAnalysisInit /\ [][PreAnalysisNext]_vars

\* ------------------------------------------------ the empirical transform
\* The arrays of observations handed to calculateCCDF: ascending values,
\* positive integer frequencies (and the empty array).
Observation(value, frequency) == [value |-> value, frequency |-> frequency]
ObservationLists ==
    UNION {{[i \in 1..n |-> Observation(i, f[i])] : f \in [1..n -> 1..MaxFrequency]} :
           n \in 0..MaxPoints}

\* calculateCCDF maps over the array and returns new items in a new array.
CalculateCCDF ==
    /\ call.op = "new"
    /\ call' = [op |-> "calculateCCDF", again |-> FALSE]
    /\ ret' = calculateCCDF(dataset)
    /\ UNCHANGED <<analyzers, analyzerKeys, defaultAnalyzers, calls, dataset>>
    /\ UNCHANGED <<rankVars, pageVars>>

\* The caller hands the array it got back to calculateCCDF once more.
CalculateCCDFAgain ==
    /\ call.op = "calculateCCDF"
    /\ ~call.again
    /\ ret.raised = NoError
    /\ call' = [op |-> "calculateCCDF", again |-> TRUE]
    /\ dataset' = ret.value
    /\ ret' = calculateCCDF(ret.value)
    /\ UNCHANGED <<analyzers, analyzerKeys, defaultAnalyzers, calls>>
    /\ UNCHANGED <<rankVars, pageVars>>

TransformInit ==
    /\ analyzers = <<>>
    /\ analyzerKeys = <<>>
    /\ defaultAnalyzers = <<>>
    /\ call = [op |-> "new"]
    /\ ret = Returned(None)
    /\ calls = <<>>
    /\ dataset \in ObservationLists
    /\ RankIdle
    /\ PageIdle

TransformNext == CalculateCCDF \/ CalculateCCDFAgain

TransformSpec == TransformInit /\ [][TransformNext]_vars

\* ------------------------------------------------- the built-in analyzers
\* The analyzer objects as their constructors leave them.
BuiltIn(name) == [name |-> name, displayName |-> DisplayName(name)]

\* The arrays handed to the analyzers: what calculateCCDF returns for
\* observations whose values may repeat and may be 0, and the empty array.
\* The values are drawn in ascending order, as a frequency table lists
\* them; no guard of analyze or validateData depends on the order.
AnalyzerValues == {0, 1, 2}
AnalyzerFrequencies == {1, 2}
Ascending(observations) ==
    \A i \in 1..(Len(observations) - 1) :
        observations[i].value <= observations[i + 1].value
AnalyzerDatasets ==
    {<<>>} \cup
    UNION {{calculateCCDF(observations).value :
              observations \in {o \in [1..n -> [value : AnalyzerValues,
                                                 frequency : AnalyzerFrequencies]] :
                                  Ascending(o)}} :
           n \in 1..MaxPoints}

Analyze(name) ==
    /\ call' = [op |-> "analyze", analyzer |-> name]
    /\ LET outcome == analyze(analyzers[name], dataset) IN
         /\ ret' = outcome.ret
         /\ analyzers' = [analyzers EXCEPT ![name] = outcome.analyzer]
         /\ dataset' = outcome.items
    /\ UNCHANGED <<analyzerKeys, defaultAnalyzers, calls>>
    /\ UNCHANGED <<rankVars, pageVars>>

ValidateData(name) ==
    /\ call' = [op |-> "validateData", analyzer |-> name]
    /\ LET outcome == validateData(analyzers[name], dataset) IN
         /\ ret' = outcome.ret
         /\ analyzers' = [analyzers EXCEPT ![name] = outcome.analyzer]
         /\ dataset' = outcome.items
    /\ UNCHANGED <<analyzerKeys, defaultAnalyzers, calls>>
    /\ UNCHANGED <<rankVars, pageVars>>

\* The three analyzers of the application, and a caller that calls their
\* methods on one array, any number of times in any order.
AnalyzerInit ==
    /\ analyzers = [name \in Names |-> BuiltIn(name)]
    /\ analyzerKeys = <<"powerLaw", "logNormal", "exponential">>
    /\ defaultAnalyzers = <<"powerLaw", "logNormal", "exponential">>
    /\ call = [op |-> "new"]
    /\ ret = Returned(None)
    /\ calls = <<>>
    /\ dataset \in AnalyzerDatasets
    /\ RankIdle
    /\ PageIdle

AnalyzerNext ==
    \/ \E name \in Names : Analyze(name)
    \/ \E name \in Names : ValidateData(name)

AnalyzerSpec == AnalyzerInit /\ [][AnalyzerNext]_vars

\* ------------------------------------------- ranking standardized results
ConfidenceScores == {88, 92, 96}
AicValues == {0, 100, 200}
ValidDataPointCounts == {3, 5}

\* The standardized results handed to the ranking.  standardizeResult takes
\* confidenceScore and isGoodFit from the same R squared, so a score above
\* 0.9 comes with isGoodFit true; at or below it isGoodFit is whatever the
\* Kolmogorov-Smirnov test decided.  An AIC of 0 stands for a result whose
\* AIC is 0 or missing: the comparator treats both alike.
RankedResult ==
    {r \in [confidenceScore : ConfidenceScores,
            goodnessOfFit : [aic : AicValues],
            validDataPoints : ValidDataPointCounts, isGoodFit : BOOLEAN] :
        r.confidenceScore > GoodFitThreshold => r.isGoodFit}

RankInit ==
    /\ EngineInit
    /\ PageIdle
    /\ \E n \in 0..MaxResults : given \in [1..n -> RankedResult]
    /\ list = given
    /\ ranked = <<>>
    /\ best = None
    /\ fn = "none"

RankResults ==
    /\ fn = "none"
    /\ list' = rankResults(list)
    /\ ranked' = rankResults(list)
    /\ fn' = "rankResults"
    /\ UNCHANGED <<given, best>>
    /\ UNCHANGED <<engineVars, pageVars>>

GetBestFit ==
    /\ fn = "none"
    /\ list' = rankResults(list)
    /\ best' = getBestFit(list)
    /\ fn' = "getBestFit"
    /\ UNCHANGED <<given, ranked>>
    /\ UNCHANGED <<engineVars, pageVars>>

RankNext == RankResults \/ GetBestFit

RankSpec == RankInit /\ [][RankNext]_vars

\* ------------------------------------------------------ JavaScript numbers
\* A Number handed to a numeric function: a finite number, an infinity (n
\* is its sign) or NaN. The exponential of a finite number other than 0 is
\* kept as the number it is of: a positive finite number other than 1.
Finite(n) == [kind |-> "finite", n |-> n]
Infinite(sign) == [kind |-> "Infinity", n |-> sign]
NaN == [kind |-> "NaN", n |-> 0]
Numbers ==
    {Finite(n) : n \in (0 - MaxNumber)..MaxNumber}
    \cup {Infinite(1), Infinite(0 - 1), NaN}

Sign(n) == IF n < 0 THEN 0 - 1 ELSE IF n > 0 THEN 1 ELSE 0

\* "x < 0": false for NaN.
LessThanZero(x) == x.kind # "NaN" /\ x.n < 0
\* "lambda === 0"
StrictEqualsZero(x) == x.kind = "finite" /\ x.n = 0

\* "-x"
Negate(x) == [x EXCEPT !.n = 0 - x.n]

\* "a * b": NaN spreads, and so does Infinity times 0.
Times(a, b) ==
    IF a.kind = "NaN" \/ b.kind = "NaN" THEN NaN
    ELSE IF a.kind = "finite" /\ b.kind = "finite" THEN Finite(a.n * b.n)
    ELSE IF a.n = 0 \/ b.n = 0 THEN NaN
    ELSE Infinite(Sign(a.n) * Sign(b.n))

\* Math.exp
Exp(x) ==
    CASE x.kind = "NaN" -> NaN
      [] x.kind = "Infinity" -> IF x.n > 0 THEN Infinite(1) ELSE Finite(0)
      [] x.n = 0 -> Finite(1)
      [] OTHER -> [kind |-> "exp", n |-> x.n]

\* --------------------------------------- ExponentialAnalyzer.getTheoreticalCCDF
\* The function without its "lambda === 0" line.
getTheoreticalCCDFWithoutZeroGuard(xValues, parameters) ==
    [i \in 1..Len(xValues) |->
        IF LessThanZero(xValues[i]) THEN Finite(1)
        ELSE Exp(Times(Negate(parameters.lambda), xValues[i]))]

getTheoreticalCCDF(xValues, parameters) ==
    [i \in 1..Len(xValues) |->
        IF LessThanZero(xValues[i]) THEN Finite(1)
        ELSE IF StrictEqualsZero(parameters.lambda) THEN Finite(1)
        ELSE Exp(Times(Negate(parameters.lambda), xValues[i]))]

NumberLists == UNION {[1..n -> Numbers] : n \in 0..MaxXValues}

GetTheoreticalCCDF(lambda) ==
    /\ call.op = "new"
    /\ call' = [op |-> "getTheoreticalCCDF", parameters |-> [lambda |-> lambda]]
    /\ ret' = Returned(getTheoreticalCCDF(dataset, [lambda |-> lambda]))
    /\ UNCHANGED <<analyzers, analyzerKeys, defaultAnalyzers, calls, dataset>>
    /\ UNCHANGED <<rankVars, pageVars>>

\* The exponential analyzer, and a caller with an array of x values.
TheoreticalInit ==
    /\ analyzers = [name \in {"exponential"} |-> BuiltIn(name)]
    /\ analyzerKeys = <<"exponential">>
    /\ defaultAnalyzers = <<"exponential">>
    /\ call = [op |-> "new"]
    /\ ret = Returned(None)
    /\ calls = <<>>
    /\ dataset \in NumberLists
    /\ RankIdle
    /\ PageIdle

TheoreticalNext == \E lambda \in Numbers : GetTheoreticalCCDF(lambda)

TheoreticalSpec == TheoreticalInit /\ [][TheoreticalNext]_vars

\* ---------------------------------------------------------------- mathUtils
RECURSIVE SumOf(_, _)
SumOf(values, i) == IF i = 0 THEN 0 ELSE SumOf(values, i - 1) + values[i]

\* "a / b" of two finite numbers, a >= 0 and b >= 0: 0 / 0 is NaN and a
\* positive number over 0 is Infinity; any other quotient is kept as the
\* fraction it is.
Quotient(a, b) ==
    IF b # 0 THEN [kind |-> "fraction", n |-> <<a, b>>]
    ELSE IF a = 0 THEN NaN
    ELSE Infinite(1)

\* Math.sqrt: NaN and Infinity are returned as they are, without an error.
Sqrt(x) ==
    IF x.kind \in {"NaN", "Infinity"} THEN x
    ELSE [kind |-> "sqrt", n |-> x.n]

\* With n values of sum s the mean is s / n and the squared differences sum
\* to (1 / n^2) * the sum of (n * val - s)^2; the numbers are kept exact.
RECURSIVE SumSquaredDiffs(_, _, _)
SumSquaredDiffs(values, i, total) ==
    IF i = 0 THEN 0
    ELSE SumSquaredDiffs(values, i - 1, total)
         + (Len(values) * values[i] - total) * (Len(values) * values[i] - total)

standardDeviation(values, sample) ==
    IF Len(values) = 0
    THEN Raised("InvalidArgument", "Values must be a non-empty array")
    ELSE LET squared == SumSquaredDiffs(values, Len(values), SumOf(values, Len(values)))
             variance == Quotient(squared,
                                  Len(values) * Len(values)
                                  * (Len(values) - (IF sample THEN 1 ELSE 0)))
         IN Returned(Sqrt(variance))

ValueLists == UNION {[1..n -> (0 - MaxNumber)..MaxNumber] : n \in 0..MaxXValues}

StandardDeviation(sample) ==
    /\ call.op = "new"
    /\ call' = [op |-> "standardDeviation", sample |-> sample]
    /\ ret' = standardDeviation(dataset, sample)
    /\ UNCHANGED <<analyzers, analyzerKeys, defaultAnalyzers, calls, dataset>>
    /\ UNCHANGED <<rankVars, pageVars>>

\* A caller with an array of numbers; no analyzer is involved.
DeviationInit ==
    /\ analyzers = <<>>
    /\ analyzerKeys = <<>>
    /\ defaultAnalyzers = <<>>
    /\ call = [op |-> "new"]
    /\ ret = Returned(None)
    /\ calls = <<>>
    /\ dataset \in ValueLists
    /\ RankIdle
    /\ PageIdle

DeviationNext == \E sample \in BOOLEAN : StandardDeviation(sample)

DeviationSpec == DeviationInit /\ [][DeviationNext]_vars

\* ---------------------------------------------------------- the page script
\* The chart (updateChart) and the analytics calls are left out: they read
\* the state below and write none of it.
showError(shown, message) ==
    [shown EXCEPT !.errorMsg = message, !.resultsHidden = TRUE]

\* updateResults: the best distribution shown. The first ranked result is
\* read before anything else, which throws when there is none.
updateResults(results, shown) ==
    IF Len(results.results) = 0
    THEN Raised("TypeError", "Cannot read properties of undefined")
    ELSE IF results.bestFit # None
    THEN Returned([shown EXCEPT !.bestDistribution = results.bestFit.displayName])
    ELSE Returned([shown EXCEPT !.bestDistribution = "None"])

\* analyzeData: everything runs inside one try block, so the first
\* statement that throws ends the function in showError. The analytics
\* event reads result.bestFit.distributionType right after the analysis,
\* before the results are stored.
analyzeData(shown) ==
    LET After(outcome) ==
            LET result == outcome.ret.value
                updated == updateResults(result, shown)
                failure ==
                    IF outcome.ret.raised # NoError THEN outcome.ret.message
                    ELSE IF result.bestFit = None
                    THEN "Cannot read properties of null (reading 'distributionType')"
                    ELSE IF updated.raised # NoError THEN updated.message
                    ELSE ""
            IN [ret |-> outcome.ret, calls |-> outcome.calls,
                analysisResults |->
                    IF outcome.ret.raised # NoError \/ result.bestFit = None
                    THEN analysisResults
                    ELSE result,
                page |-> IF failure # ""
                         THEN showError(shown, <<"Error analyzing data:", failure>>)
                         ELSE [updated.value EXCEPT !.resultsHidden = FALSE]]
    \* analyzeMultiple is called once: its outcome is what After is about.
    IN CHOOSE after \in {After(outcome) : outcome \in {analyzeMultiple(None)}} : TRUE

\* parseInput, the handler of the analyze button: the error message is
\* cleared, the text is parsed and transformed, which may throw, and the
\* analysis runs.
ParseInput(parses) ==
    /\ call' = [op |-> "parseInput", parses |-> parses]
    /\ \E cleared \in {[page EXCEPT !.errorMsg = <<>>]} :
         IF parses
         THEN \E outcome \in {analyzeData(cleared)} :
                  /\ ret' = outcome.ret
                  /\ calls' = outcome.calls
                  /\ analysisResults' = outcome.analysisResults
                  /\ page' = outcome.page
         ELSE /\ ret' = Returned(None)
              /\ calls' = <<>>
              /\ analysisResults' = analysisResults
              /\ page' = showError(cleared, <<"Error parsing input:", "no valid data">>)
    /\ UNCHANGED <<analyzers, analyzerKeys, defaultAnalyzers, dataset>>
    /\ UNCHANGED <<rankVars, visibleDistributions>>

\* "visibleDistributions.filter((d) => d !== distributionType)"
RECURSIVE FilterOut(_, _)
FilterOut(seq, name) ==
    IF seq = <<>> THEN <<>>
    ELSE IF Head(seq) = name THEN FilterOut(Tail(seq), name)
    ELSE <<Head(seq)>> \o FilterOut(Tail(seq), name)

\* toggleDistributionVisibility: the new value of the global list.
toggleDistributionVisibility(visible, distributionType, isVisible) ==
    IF isVisible /\ ~Contains(visible, distributionType)
    THEN Append(visible, distributionType)
    ELSE IF ~isVisible /\ Contains(visible, distributionType)
    THEN FilterOut(visible, distributionType)
    ELSE visible

ToggleDistributionVisibility(distributionType, isVisible) ==
    /\ call' = [op |-> "toggleDistributionVisibility",
                distributionType |-> distributionType, isVisible |-> isVisible]
    /\ visibleDistributions' =
           toggleDistributionVisibility(visibleDistributions, distributionType, isVisible)
    /\ ret' = Returned(None)
    /\ calls' = <<>>
    /\ UNCHANGED <<analyzers, analyzerKeys, defaultAnalyzers, dataset>>
    /\ UNCHANGED <<rankVars, analysisResults, page>>

\* What an analyzer of the page does on the data entered: a good fit, a
\* fit that is not good, a throwing analyze or a refusing validateData.
PageAnalyzers ==
    UNION {AnalyzersNamed(n, {RawResult(96, FALSE, 100, 5), RawResult(88, TRUE, 100, 5)}) :
           n \in Names}

\* The page after initializeAnalysisEngine: the three analyzers registered
\* as defaults, each drawn by what it does on the data entered.
PageInit ==
    /\ analyzers \in {f \in [Names -> PageAnalyzers] : \A n \in Names : f[n].name = n}
    /\ analyzerKeys = <<"powerLaw", "logNormal", "exponential">>
    /\ defaultAnalyzers = <<"powerLaw", "logNormal", "exponential">>
    /\ call = [op |-> "new"]
    /\ ret = Returned(None)
    /\ calls = <<>>
    /\ dataset = <<>>
    /\ RankIdle
    /\ PageIdle

PageNext ==
    \/ \E parses \in BOOLEAN : ParseInput(parses)
    \/ \E n \in Names, v \in BOOLEAN : ToggleDistributionVisibility(n, v)

PageSpec == PageInit /\ [][PageNext]_vars

\* ------------------------------------------- the normal probability plot
\* The arrays the plot is made of: n observations of frequency 1 with the
\* values 1..n, in ascending or in descending order, after calculateCCDF.
PlotDatasets ==
    {calculateCCDF([i \in 1..n |-> [value |-> IF up THEN i ELSE n + 1 - i,
                                    frequency |-> 1]]).value :
        n \in 1..MaxPlotPoints, up \in BOOLEAN}

GenerateNormalProbabilityPlot ==
    /\ call' = [op |-> "generateNormalProbabilityPlot", analyzer |-> "logNormal"]
    /\ ret' = generateNormalProbabilityPlot(addLnTransforms(dataset))
    /\ UNCHANGED <<analyzers, analyzerKeys, defaultAnalyzers, calls, dataset>>
    /\ UNCHANGED <<rankVars, pageVars>>

\* The log-normal analyzer, and a caller with an array of positive values.
PlotInit ==
    /\ analyzers = [name \in {"logNormal"} |-> BuiltIn(name)]
    /\ analyzerKeys = <<"logNormal">>
    /\ defaultAnalyzers = <<"logNormal">>
    /\ call = [op |-> "new"]
    /\ ret = Returned(None)
    /\ calls = <<>>
    /\ dataset \in PlotDatasets
    /\ RankIdle
    /\ PageIdle

PlotNext ==
    \/ GenerateNormalProbabilityPlot
    \/ Analyze("logNormal")

PlotSpec == PlotInit /\ [][PlotNext]_vars

\* ------------------------------------------------------------ the claims
\* The name list analyzeMultiple resolved for the call recorded in call.
Requested ==
    IF call.analyzerNames = None THEN defaultAnalyzers
    ELSE call.analyzerNames.names

Occurrences(seq, P(_)) == Cardinality({i \in 1..Len(seq) : P(seq[i])})

MultipleCalled == call.op = "analyzeMultiple"
MultipleReturned == MultipleCalled /\ ret.raised = NoError

\* Whether analyzeSingle succeeds for a name in the current registry.
Succeeds(name) ==
    /\ name \in DOMAIN analyzers
    /\ analyzers[name].validation.valid
    /\ ~analyzers[name].outcome.threw

\* C1: an analyzeMultiple call on a non-empty resolved name list never
\* raises; every requested name is attempted exactly once and contributes
\* exactly one entry, a result when its analysis succeeds and an error
\* record otherwise, whatever happened to the names before it.
C1_BatchIsolatesFailures ==
    (MultipleCalled /\ Len(Requested) > 0) =>
        /\ ret.raised = NoError
        /\ Len(ret.value.results) + Len(ret.value.errors) = Len(Requested)
        /\ \A n \in Names :
             LET asked == Occurrences(Requested, LAMBDA x : x = n) IN
             /\ Occurrences(ret.value.results, LAMBDA r : r.distributionType = n)
                  = (IF Succeeds(n) THEN asked ELSE 0)
             /\ Occurrences(ret.value.errors, LAMBDA e : e.analyzer = n)
                  = (IF Succeeds(n) THEN 0 ELSE asked)
             /\ Occurrences(calls, LAMBDA c : c = Invocation(n, "validateData"))
                  = (IF n \in DOMAIN analyzers THEN asked ELSE 0)
             /\ Occurrences(calls, LAMBDA c : c = Invocation(n, "analyze"))
                  <= asked

\* C1 witness: a batch of three in which one analyze throws ends with two
\* results and one error record.
C1_Witness ==
    /\ MultipleReturned
    /\ Len(Requested) = 3
    /\ Len(ret.value.results) = 2
    /\ Len(ret.value.errors) = 1
    /\ ret.value.errors[1].error[1] = "AnalyzeThrew"
    /\ ret.value.errors[1].analyzer = Requested[1]

C3_RankedByConfidence ==
    fn = "rankResults" =>
        \A i, j \in 1..Len(ranked) :
            i < j => ranked[j].confidenceScore - ranked[i].confidenceScore
                       <= ConfidenceBand

\* C4 (as claimed): of two results whose confidence scores differ by at most
\* 0.05 and which both carry an AIC, the one with the lower AIC is ranked
\* first, and with equal AICs the one with more valid data points.
C4_ThreeLevelTieBreak ==
    fn = "rankResults" =>
        \A i, j \in 1..Len(ranked) :
            (/\ i < j
             /\ Abs(ranked[i].confidenceScore - ranked[j].confidenceScore)
                  <= ConfidenceBand
             /\ Truthy(ranked[i].goodnessOfFit.aic)
             /\ Truthy(ranked[j].goodnessOfFit.aic))
            => /\ ranked[i].goodnessOfFit.aic <= ranked[j].goodnessOfFit.aic
               /\ (ranked[i].goodnessOfFit.aic = ranked[j].goodnessOfFit.aic
                     => ranked[i].validDataPoints >= ranked[j].validDataPoints)

\* C5 (as claimed): ranking any permutation of the same results yields the
\* same sequence.
Permuted(s, p) == [i \in 1..Len(s) |-> s[p[i]]]
C5_RankingIgnoresInputOrder ==
    fn = "rankResults" =>
        \A p \in Orderings(1..Len(given)) :
            Len(p) = Len(given) => rankResults(Permuted(given, p)) = ranked

\* C6 (as claimed): whenever some successful result of analyzeMultiple is a
\* good fit, bestFit is the highest-ranked good fit.
FirstGoodFit(results) ==
    results[CHOOSE i \in 1..Len(results) :
               /\ results[i].isGoodFit
               /\ \A j \in 1..(i - 1) : ~results[j].isGoodFit]
C6_BestFitIsHighestGoodFit ==
    (MultipleReturned /\ \E i \in 1..Len(ret.value.results) :
                             ret.value.results[i].isGoodFit)
    => /\ ret.value.bestFit # None
       /\ ret.value.bestFit = FirstGoodFit(ret.value.results)

\* C7 (as claimed): whenever bestFit is present, that result passes its own
\* family's acceptance threshold (authoritative score > 0.9).
C7_BestFitPassesFamilyThreshold ==
    (MultipleReturned /\ ret.value.bestFit # None)
    => ret.value.bestFit.goodnessOfFit.isFamily

\* C8 (as claimed): with at least one analyzer registered, analyzeMultiple
\* called without a name list returns a result instead of raising.
DefaultsRun == MultipleCalled /\ call.analyzerNames = None
C8_RegisteredNeverFailsOutright ==
    (DefaultsRun /\ DOMAIN analyzers # {}) => ret.raised = NoError

\* C8 (amended): with at least one analyzer in the defaults list,
\* analyzeMultiple called without a name list returns a result (errors plus
\* whatever succeeded) instead of raising.
C8_DefaultsNeverFailOutright ==
    (DefaultsRun /\ Len(defaultAnalyzers) > 0) =>
        /\ ret.raised = NoError
        /\ Len(ret.value.results) + Len(ret.value.errors) = Len(defaultAnalyzers)

\* C8 witness: a run on the defaults in which every analyzer failed still
\* returned, with the errors listed.
C8_Witness ==
    /\ DefaultsRun
    /\ Len(defaultAnalyzers) > 1
    /\ ret.raised = NoError
    /\ Len(ret.value.results) = 0
    /\ Len(ret.value.errors) = Len(defaultAnalyzers)

\* C9: analyzeMultiple fails with NoAnalyzersConfigured whenever the resolved
\* name list is empty (an empty list passed, or none passed and no
\* defaults), without invoking validateData or analyze on any analyzer.
C9_EmptyNameListFails ==
    (MultipleCalled /\ Len(Requested) = 0) =>
        /\ ret.raised = "NoAnalyzersConfigured"
        /\ calls = <<>>

\* C9 witness: an explicitly empty list was passed to an engine that has
\* defaults, and the call failed.
C9_Witness ==
    /\ MultipleCalled
    /\ call.analyzerNames # None
    /\ Len(Requested) = 0
    /\ Len(defaultAnalyzers) > 0
    /\ ret.raised = "NoAnalyzersConfigured"

\* C10: analyzeSingle invokes validateData before analyze, and when
\* validateData reports invalid it fails with ValidationFailed carrying the
\* validator's message and never invokes analyze.
C10_ValidateBeforeAnalyze ==
    call.op = "analyzeSingle" =>
        LET n == call.analyzerName IN
        /\ \A i \in 1..Len(calls) :
               calls[i].method = "analyze" =>
                   \E j \in 1..(i - 1) : calls[j] = Invocation(n, "validateData")
        /\ (/\ n \in DOMAIN analyzers
            /\ ~analyzers[n].validation.threw
            /\ ~analyzers[n].validation.valid)
           => /\ ret.raised = "ValidationFailed"
              /\ ret.message = analyzers[n].validation.message
              /\ calls = <<Invocation(n, "validateData")>>

\* C10 witness: analyzeSingle ran on an analyzer whose validateData rejected
\* the data.
C10_Witness ==
    /\ call.op = "analyzeSingle"
    /\ call.analyzerName \in DOMAIN analyzers
    /\ ~analyzers[call.analyzerName].validation.valid
    /\ ~analyzers[call.analyzerName].validation.threw
    /\ ret.raised = "ValidationFailed"

\* ------------------------------------------------------------ the registry
RegisterCalled == call.op = "registerAnalyzer"
RegisterReturned == RegisterCalled /\ ret.raised = NoError
NoDuplicates(seq) == \A i, j \in 1..Len(seq) : i # j => seq[i] # seq[j]

\* C11: registering under a name stores the instance just passed under that
\* name, replacing whatever was there (last write wins), and the defaults
\* list never holds a name twice, whatever registerAnalyzer and
\* unregisterAnalyzer calls were made.
C11_LastWriteWinsNoDuplicateDefault ==
    /\ NoDuplicates(defaultAnalyzers)
    /\ RegisterReturned =>
          /\ call.analyzer.name \in DOMAIN analyzers
          /\ analyzers[call.analyzer.name] = call.analyzer

\* A name was registered again as a default: it stands in the defaults list
\* before another name, so the call just made found it there (a new default
\* is pushed at the end), and the mapping holds the instance just passed.
C11_Witness ==
    /\ RegisterReturned
    /\ call.isDefault
    /\ Len(defaultAnalyzers) >= 2
    /\ defaultAnalyzers[1] = call.analyzer.name
    /\ call.analyzer.outcome = AnalyzeThrows

\* C12: unregisterAnalyzer(name) raises nothing, removes name from the
\* mapping and from the defaults list, keeps every other mapping entry and
\* the order of the remaining defaults, and changes neither structure when
\* name is not registered.
C12_UnregisterRemovesOnlyName ==
    [][call'.op = "unregisterAnalyzer" =>
         LET name == call'.analyzerName IN
         /\ ret'.raised = NoError
         /\ DOMAIN analyzers' = DOMAIN analyzers \ {name}
         /\ \A other \in DOMAIN analyzers' : analyzers'[other] = analyzers[other]
         /\ defaultAnalyzers' = SelectSeq(defaultAnalyzers, LAMBDA n : n # name)
         /\ name \notin DOMAIN analyzers =>
               /\ analyzers' = analyzers
               /\ defaultAnalyzers' = defaultAnalyzers]_vars

\* A name was unregistered while other analyzers, defaults among them, stay
\* registered.
C12_Witness ==
    /\ call.op = "unregisterAnalyzer"
    /\ ret.raised = NoError
    /\ call.analyzerName \notin DOMAIN analyzers
    /\ ~Contains(defaultAnalyzers, call.analyzerName)
    /\ Cardinality(DOMAIN analyzers) = 2
    /\ Len(defaultAnalyzers) = 2

\* C13: registerAnalyzer of an analyzer without a name raises
\* MissingIdentity and leaves the mapping and the defaults list as they were.
C13_MissingIdentityChangesNothing ==
    [][(call'.op = "registerAnalyzer" /\ call'.analyzer.name = NoName) =>
         /\ ret'.raised = "MissingIdentity"
         /\ analyzers' = analyzers
         /\ defaultAnalyzers' = defaultAnalyzers]_vars

\* A nameless analyzer was refused by an engine that holds analyzers.
C13_Witness ==
    /\ RegisterCalled
    /\ call.analyzer.name = NoName
    /\ ret.raised = "MissingIdentity"
    /\ DOMAIN analyzers # {}
    /\ Len(defaultAnalyzers) >= 1
    /\ NoName \notin DOMAIN analyzers

\* C14: after registerAnalyzer(a, false) returns, a.name is not in the
\* defaults list.
C14_NonDefaultNotInDefaults ==
    (RegisterReturned /\ ~call.isDefault) =>
        ~Contains(defaultAnalyzers, call.analyzer.name)

\* ---------------------------------------------------------- the summary
\* C15: the summary of an analyzeMultiple result is fixed by the outcome.
\* With a bestFit the verdict names it and summary.confidence is its
\* confidence score; without one but with a successful result the verdict is
\* the inconclusive one and the recommendation names the top-ranked result;
\* with no successful result the verdict is the total failure and the
\* recommendation holds every error message.
C15_SummaryFollowsOutcome ==
    MultipleReturned =>
        LET result == ret.value
            summary == result.summary
        IN
        /\ result.bestFit # None =>
              /\ summary.verdict.sentence = "appears to follow"
              /\ summary.verdict.names = result.bestFit.displayName
              /\ summary.confidence = result.bestFit.confidenceScore
        /\ (result.bestFit = None /\ Len(result.results) > 0) =>
              /\ summary.verdict.sentence = "does not clearly follow"
              /\ summary.recommendation.sentence = "closest match"
              /\ summary.recommendation.names = result.results[1].displayName
        /\ Len(result.results) = 0 =>
              /\ result.bestFit = None
              /\ summary.verdict.sentence = "unable to analyze"
              /\ \A i \in 1..Len(result.errors) :
                    \E j \in 1..Len(summary.recommendation.errors) :
                        summary.recommendation.errors[j] = result.errors[i].error

\* A run with no bestFit, two successful results and a failure: the
\* inconclusive branch.
C15_Witness ==
    /\ MultipleReturned
    /\ ret.value.bestFit = None
    /\ Len(ret.value.results) = 2
    /\ Len(ret.value.errors) = 1
    /\ ret.value.summary.verdict.sentence = "does not clearly follow"
    /\ ret.value.summary.recommendation.names = ret.value.results[1].displayName

\* ------------------------------------------------------------ pre-analysis
PreAnalyzed == call.op = "preAnalyze" /\ ret.raised = NoError
ListedNames(infos) == {infos[i].name : i \in 1..Len(infos)}
ReportsValid(name) ==
    ~analyzers[name].validation.threw /\ analyzers[name].validation.valid

\* Every registered analyzer had validateData called once and analyze never,
\* and stands once in exactly one of the two lists: in suitable exactly when
\* its validateData reported valid.
PartitionsRegistered ==
    /\ \A i \in 1..Len(calls) : calls[i].method = "validateData"
    /\ \A name \in DOMAIN analyzers :
          /\ Occurrences(calls, LAMBDA c : c.analyzer = name) = 1
          /\ Occurrences(ret.value.suitable, LAMBDA info : info.name = name)
               + Occurrences(ret.value.unsuitable, LAMBDA info : info.name = name) = 1
          /\ name \in ListedNames(ret.value.suitable) <=> ReportsValid(name)
    /\ ListedNames(ret.value.suitable) \cup ListedNames(ret.value.unsuitable)
          \subseteq DOMAIN analyzers

\* C16 as stated: whatever data preAnalyze is given, it calls validateData
\* (never analyze) on every registered analyzer and lists each in exactly one
\* of suitable and unsuitable, in suitable exactly when it reported valid.
C16_PreAnalyzePartitions == call.op = "preAnalyze" => (PreAnalyzed /\ PartitionsRegistered)

\* C16 amended: that holds when data is a non-empty array; for an empty
\* array or a value that is not an array no analyzer method is called and
\* both lists are empty.
C16_PreAnalyzePartitionsObservations ==
    call.op = "preAnalyze" =>
        /\ PreAnalyzed
        /\ call.data = Observations => PartitionsRegistered
        /\ call.data # Observations =>
              /\ calls = <<>>
              /\ ret.value.suitable = <<>>
              /\ ret.value.unsuitable = <<>>

\* Three analyzers pre-analyzed on observations: one suitable, one rejecting
\* the data and one whose validateData throws.
C16_Witness ==
    /\ PreAnalyzed
    /\ call.data = Observations
    /\ Len(ret.value.suitable) = 1
    /\ Len(ret.value.unsuitable) = 2
    /\ \E name \in DOMAIN analyzers : analyzers[name].validation.threw
    /\ \E name \in DOMAIN analyzers :
          ~analyzers[name].validation.threw /\ ~analyzers[name].validation.valid

\* ------------------------------------------------ the empirical transform
Transformed == call.op = "calculateCCDF" /\ ret.raised = NoError

\* C17: for a non-empty array of observations with positive frequencies,
\* cdf never decreases and ccdf never increases along the array, cdf + ccdf
\* is 1 at every point, and at the last point cdf is 1 and ccdf is 0.
C17_CdfCcdfInvariants ==
    Transformed =>
        LET points == ret.value IN
        /\ \A i \in 1..(Len(points) - 1) :
              /\ points[i].cdf <= points[i + 1].cdf
              /\ points[i].ccdf >= points[i + 1].ccdf
        /\ \A i \in 1..Len(points) : FloatAdd(points[i].cdf, points[i].ccdf) = One
        /\ points[Len(points)].cdf = One
        /\ points[Len(points)].ccdf = 0

\* C18: calculateCCDF keeps the fields of every item it is given, and run
\* on its own output it computes the same probability, cdf and ccdf at every
\* point as the first run.
C18_TransformIdempotent ==
    Transformed =>
        /\ Len(ret.value) = Len(dataset)
        /\ \A i \in 1..Len(dataset) :
              /\ ret.value[i].value = dataset[i].value
              /\ ret.value[i].frequency = dataset[i].frequency
              /\ call.again =>
                    /\ ret.value[i].probability = dataset[i].probability
                    /\ ret.value[i].cdf = dataset[i].cdf
                    /\ ret.value[i].ccdf = dataset[i].ccdf

\* The transform was run on its own output of three or more points, an
\* output whose running sum did not round to exactly 1.
C18_Witness ==
    /\ Transformed
    /\ call.again
    /\ Len(dataset) >= 3
    /\ dataset[Len(dataset)].cdf # One
    /\ ret.value[Len(dataset)].cdf = dataset[Len(dataset)].cdf

\* ------------------------------------------------- the built-in analyzers
\* A family's domain filter as the claims state it.
PassesDomainFilter(name, point) ==
    IF name = "powerLaw" THEN point.value > 0 /\ point.ccdf > 0
    ELSE point.value > 0
PointsPassing(name) ==
    Occurrences(dataset, LAMBDA point : PassesDomainFilter(name, point))

\* C19 as stated: analyze raises InsufficientValidData whenever fewer than
\* 3 points of its input pass the family's domain filter.
C19_FewValidPointsInsufficient ==
    (call.op = "analyze" /\ PointsPassing(call.analyzer) < 3) =>
        ret.raised = "InsufficientValidData"

\* C19 amended: that holds for a non-empty input; an empty array is refused
\* before the filter, as an empty input.
C19_FewValidPointsInsufficientNonEmpty ==
    (call.op = "analyze" /\ PointsPassing(call.analyzer) < 3) =>
        /\ Len(dataset) > 0 => ret.raised = "InsufficientValidData"
        /\ Len(dataset) = 0 => ret.raised = "EmptyInput"

\* The power-law analyzer refused three or more points with positive
\* values of which fewer than three have a positive ccdf.
C19_Witness ==
    /\ call.op = "analyze"
    /\ call.analyzer = "powerLaw"
    /\ Len(dataset) >= 3
    /\ \A i \in 1..Len(dataset) : dataset[i].value > 0
    /\ PointsPassing("powerLaw") = 2
    /\ ret.raised = "InsufficientValidData"

C21_ExponentialCCDFIsOne ==
    call.op = "getTheoreticalCCDF" =>
        /\ Len(ret.value) = Len(dataset)
        /\ \A i \in 1..Len(dataset) :
             (\/ call.parameters.lambda = Finite(0)
              \/ dataset[i] = Infinite(0 - 1)
              \/ (dataset[i].kind = "finite" /\ dataset[i].n < 0))
                 => ret.value[i] = Finite(1)

\* lambda is 0 and the x values hold an infinity, where exp(-lambda * x)
\* would be NaN.
C21_Witness ==
    /\ call.op = "getTheoreticalCCDF"
    /\ call.parameters.lambda = Finite(0)
    /\ \E i \in 1..Len(dataset) : dataset[i] = Infinite(1)
    /\ \E i \in 1..Len(dataset) : dataset[i] = Finite(1)

\* ---------------------------------------------------------------- mathUtils
\* C22: the sample standard deviation of a single value fails instead of
\* returning a number.
C22_SampleDeviationOfOneFails ==
    (call.op = "standardDeviation" /\ call.sample /\ Len(dataset) = 1) =>
        ret.raised # NoError

\* ------------------------------------------------------ the analyze result
\* A point of theoreticalValues without what the fit added to it.
InputPoint(point) ==
    [value |-> point.value, frequency |-> point.frequency,
     probability |-> point.probability, cdf |-> point.cdf, ccdf |-> point.ccdf]
PassingPoints(name) ==
    SelectSeq(dataset, LAMBDA point : PassesDomainFilter(name, point))

\* C23: a successful analyze result has theoreticalValues.length =
\* validDataPoints <= originalDataPoints = input length; validDataPoints
\* counts the input points that pass the family's domain filter, and
\* theoreticalValues lists those points in input order.
C23_ResultCountsValidPoints ==
    (call.op = "analyze" /\ ret.raised = NoError) =>
        LET result == ret.value
            passing == PassingPoints(call.analyzer)
        IN /\ Len(result.theoreticalValues) = result.validDataPoints
           /\ result.validDataPoints <= result.originalDataPoints
           /\ result.originalDataPoints = Len(dataset)
           /\ result.validDataPoints = Len(passing)
           /\ \A i \in 1..Len(passing) :
                InputPoint(result.theoreticalValues[i]) = InputPoint(passing[i])

\* The power-law analyzer fitted three of five points: a point with value 0
\* and the last point, of ccdf 0, were left out.
C23_Witness ==
    /\ call.op = "analyze"
    /\ call.analyzer = "powerLaw"
    /\ ret.raised = NoError
    /\ Len(dataset) = 5
    /\ ret.value.validDataPoints = 3
    /\ dataset[1].value = 0
    /\ dataset[5].ccdf = 0

\* ------------------------------------------------ the defaults are registered
\* C24: after any registerAnalyzer and unregisterAnalyzer calls every name
\* in the defaults list is a key of the name-to-analyzer mapping, so an
\* analyzeMultiple run on the defaults records no AnalyzerNotFound error.
C24_DefaultsAreRegistered ==
    /\ \A i \in 1..Len(defaultAnalyzers) : defaultAnalyzers[i] \in DOMAIN analyzers
    /\ (DefaultsRun /\ ret.raised = NoError) =>
           \A i \in 1..Len(ret.value.errors) :
               ret.value.errors[i].error[1] # "AnalyzerNotFound"

\* A run on the defaults of an engine that also holds an analyzer outside
\* its defaults; the run recorded an error, of another kind.
C24_Witness ==
    /\ DefaultsRun
    /\ ret.raised = NoError
    /\ Len(defaultAnalyzers) > 0
    /\ Cardinality(DOMAIN analyzers) > Len(defaultAnalyzers)
    /\ Len(ret.value.errors) > 0

\* ------------------------------------------------- pre-check and analysis
\* C25: when validateData of a built-in analyzer reports valid, analyze of
\* that analyzer on the same array does not fail with InsufficientValidData:
\* a valid array has at least 3 points passing the filter analyze applies.
C25_ValidThenEnoughPoints ==
    /\ [](call.op = "validateData" /\ ret.value.valid =>
              PointsPassing(call.analyzer) >= 3)
    /\ [][(/\ call.op = "validateData"
           /\ ret.value.valid
           /\ call'.op = "analyze"
           /\ call'.analyzer = call.analyzer
           /\ dataset' = dataset) =>
              ret'.raised # "InsufficientValidData"]_vars

\* The power-law pre-check accepted five points of which exactly three pass
\* the filter: one has value 0 and the last has ccdf 0.
C25_Witness ==
    /\ call.op = "validateData"
    /\ call.analyzer = "powerLaw"
    /\ ret.value.valid
    /\ Len(dataset) = 5
    /\ PointsPassing("powerLaw") = 3
    /\ Occurrences(dataset, LAMBDA point : point.value > 0) = 4

\* ------------------------------------------------------ ranking and input
\* C26: rankResults and getBestFit leave the list passed to them as it was:
\* the same elements in the same order after the call as before it.
C26_RankingLeavesInput ==
    fn \in {"rankResults", "getBestFit"} => list = given

\* ------------------------------------------------------ confidence tiers
\* The standardized results the last call returned.
ReturnedResults ==
    IF ret.raised # NoError THEN <<>>
    ELSE IF call.op = "analyzeSingle" THEN <<ret.value>>
    ELSE IF call.op = "analyzeMultiple" THEN ret.value.results
    ELSE <<>>

\* C27: the confidence tier named in the summary sentence of a result is
\* the tier in its goodnessOfFit.confidenceLevel.
C27_SummaryTierIsConfidenceLevel ==
    \A i \in 1..Len(ReturnedResults) :
        LET result == ReturnedResults[i] IN
        result.isGoodFit =>
            result.summary.evidence = toLowerCase(result.goodnessOfFit.confidenceLevel)

\* ---------------------------------------------------------- the page script
\* C28: when the analysis started from the page returns at least one
\* result but no best fit, the page stores the results and shows the
\* inconclusive verdict, best distribution "None", and no error.
C28_NoBestFitShownAsNone ==
    (/\ call.op = "parseInput"
     /\ call.parses
     /\ ret.raised = NoError
     /\ Len(ret.value.results) > 0
     /\ ret.value.bestFit = None) =>
        /\ analysisResults = ret.value
        /\ page.bestDistribution = "None"
        /\ page.errorMsg = <<>>
        /\ ~page.resultsHidden

\* C29: hiding a visible distribution and showing it again gives back the
\* list of visible distributions as it was, order included.
C29_HideThenShowRestores ==
    \A d \in Names :
        Contains(visibleDistributions, d) =>
            toggleDistributionVisibility(
                toggleDistributionVisibility(visibleDistributions, d, FALSE),
                d, TRUE) = visibleDistributions

\* ------------------------------------------- the normal probability plot
\* A probability <<numerator, denominator>> strictly between 0 and 1.
StrictlyInside(p) == 0 < p[1] /\ p[1] < p[2]

\* C30: every plotting position of the normal probability plot lies
\* strictly between 0 and 1, so neither the plot nor the log-normal analyze
\* fails with InvalidArgument out of normalInverseCDF.
C30_PlottingPositionsInside ==
    /\ call.op \in {"generateNormalProbabilityPlot", "analyze"} =>
           ret.raised # "InvalidArgument"
    /\ (call.op = "generateNormalProbabilityPlot" /\ ret.raised = NoError) =>
           /\ Len(ret.value.plotData) = Len(dataset)
           /\ \A i \in 1..Len(dataset) :
                  StrictlyInside(ret.value.plotData[i].empiricalQuantile)
    /\ (call.op = "analyze" /\ ret.raised = NoError) =>
           \A i \in 1..Len(dataset) :
               StrictlyInside(ret.value.normalProbabilityPlot.plotData[i].empiricalQuantile)

\* A plot of the largest size, drawn from values given in descending order.
C30_Witness ==
    /\ call.op = "generateNormalProbabilityPlot"
    /\ ret.raised = NoError
    /\ Len(dataset) = MaxPlotPoints
    /\ dataset[1].value > dataset[2].value
    /\ ret.value.plotData[1].originalValue = 1

====
